---- MODULE Spec2Model ----
(***************************************************************************)
(* exifsort: cli() parses the command line and calls main(input, output,   *)
(* order); main() discovers the image files under input with search(),     *)
(* and for each one reads its EXIF tags, resolves one path segment per     *)
(* sort key with Canon.lookup / Canon.process, and copies the file under   *)
(* output with copy().                                                     *)
(*                                                                         *)
(* Python strings (paths, tag values, extensions) are sequences of         *)
(* one-character strings.  The file system is a map from the path of each  *)
(* regular file to its content, and a set of directory paths.              *)
(***************************************************************************)
EXTENDS Integers, Sequences, FiniteSets, TLC

(***************************************************************************)
(* Characters and strings                                                  *)
(***************************************************************************)

\* The characters that occur in the model, in ASCII (code point) order.
Ascii ==
    << " ", "(", ")", "-", ".", "/",
       "0", "1", "2", "3", "4", "5", "6", "7", "8", "9", ":",
       "A", "B", "C", "D", "E", "F", "G", "H", "I", "J", "K", "L", "M",
       "N", "O", "P", "Q", "R", "S", "T", "U", "V", "W", "X", "Y", "Z",
       "a", "b", "c", "d", "e", "f", "g", "h", "i", "j", "k", "l", "m",
       "n", "o", "p", "q", "r", "s", "t", "u", "v", "w", "x", "y", "z" >>

Ord(c) == CHOOSE i \in 1..Len(Ascii) : Ascii[i] = c

Digits == <<"0", "1", "2", "3", "4", "5", "6", "7", "8", "9">>

IsDigit(c) == \E i \in 1..Len(Digits) : Digits[i] = c

DigitVal(c) == (CHOOSE i \in 1..Len(Digits) : Digits[i] = c) - 1

IsLower(c) == Ord(c) >= Ord("a") /\ Ord(c) <= Ord("z")

\* str.upper() on one character: only a lower case letter changes
UpperChar(c) == IF IsLower(c) THEN Ascii[Ord(c) - Ord("a") + Ord("A")] ELSE c

\* str.upper()
Upper(s) == [i \in 1..Len(s) |-> UpperChar(s[i])]

\* Python's comparison of two strings: code point order, a proper prefix first
RECURSIVE StrLess(_, _)
StrLess(a, b) ==
    IF b = <<>> THEN FALSE
    ELSE IF a = <<>> THEN TRUE
    ELSE IF Head(a) = Head(b) THEN StrLess(Tail(a), Tail(b))
    ELSE Ord(Head(a)) < Ord(Head(b))

\* s[i:] with 1-based i
From(s, i) == SubSeq(s, i, Len(s))

\* s.rfind(c), 1-based, 0 when c does not occur
RFind(s, c) ==
    IF \E i \in 1..Len(s) : s[i] = c
    THEN CHOOSE i \in 1..Len(s) : s[i] = c /\ \A j \in (i + 1)..Len(s) : s[j] # c
    ELSE 0

StartsWith(s, c) == Len(s) > 0 /\ s[1] = c

EndsWith(s, c) == Len(s) > 0 /\ s[Len(s)] = c

\* The pieces of s between occurrences of the character c, empty pieces dropped:
\* str.split() for c = " ", and the components of a path for c = "/".
RECURSIVE Pieces(_, _, _)
Pieces(s, c, cur) ==
    IF s = <<>> THEN (IF cur = <<>> THEN <<>> ELSE <<cur>>)
    ELSE IF Head(s) = c
         THEN (IF cur = <<>> THEN <<>> ELSE <<cur>>) \o Pieces(Tail(s), c, <<>>)
         ELSE Pieces(Tail(s), c, Append(cur, Head(s)))

\* payload.split(): the whitespace-delimited tokens
Split(s) == Pieces(s, " ", <<>>)

\* str(n) for n >= 0: decimal digits, no padding
RECURSIVE IntToStr(_)
IntToStr(n) ==
    IF n < 10 THEN <<Digits[n + 1]>>
    ELSE Append(IntToStr(n \div 10), Digits[(n % 10) + 1])

\* int(s) for a string of digits
RECURSIVE StrToInt(_)
StrToInt(s) ==
    IF s = <<>> THEN 0
    ELSE 10 * StrToInt(SubSeq(s, 1, Len(s) - 1)) + DigitVal(s[Len(s)])

AllDigits(s) == Len(s) > 0 /\ \A i \in 1..Len(s) : IsDigit(s[i])

\* sep.join(parts)
RECURSIVE JoinWith(_, _)
JoinWith(parts, sep) ==
    IF parts = <<>> THEN <<>>
    ELSE IF Len(parts) = 1 THEN parts[1]
    ELSE parts[1] \o <<sep>> \o JoinWith(Tail(parts), sep)

\* sorted(list) of strings
RECURSIVE Insert(_, _)
Insert(x, sortedSeq) ==
    IF sortedSeq = <<>> THEN <<x>>
    ELSE IF StrLess(Head(sortedSeq), x)
         THEN <<Head(sortedSeq)>> \o Insert(x, Tail(sortedSeq))
         ELSE <<x>> \o sortedSeq

RECURSIVE Sorted(_)
Sorted(list) ==
    IF list = <<>> THEN <<>> ELSE Insert(Head(list), Sorted(Tail(list)))

RECURSIVE Reversed(_)
Reversed(list) ==
    IF list = <<>> THEN <<>> ELSE Append(Reversed(Tail(list)), Head(list))

\* A set of strings as a list, in the order Sorted gives
RECURSIVE SetToSeq(_)
SetToSeq(S) ==
    IF S = {} THEN <<>>
    ELSE LET x == CHOOSE y \in S : \A z \in S : z = y \/ StrLess(y, z)
         IN  <<x>> \o SetToSeq(S \ {x})

RECURSIVE Concat(_)
Concat(lists) ==
    IF lists = <<>> THEN <<>> ELSE Head(lists) \o Concat(Tail(lists))

Range(f) == {f[i] : i \in DOMAIN f}

(***************************************************************************)
(* Paths (posixpath)                                                       *)
(***************************************************************************)

\* os.path.join(a, b) of two strings
Join2(a, b) ==
    IF StartsWith(b, "/") THEN b
    ELSE IF a = <<>> \/ EndsWith(a, "/") THEN a \o b
    ELSE a \o <<"/">> \o b

\* os.path.normpath of an absolute path without "." and ".." components: the
\* path the file system resolves, with repeated and trailing separators removed
NormPath(p) == <<"/">> \o JoinWith(Pieces(p, "/", <<>>), "/")

\* os.path.abspath(path) for an absolute path
Abspath(p) == NormPath(p)

\* os.path.basename(p)
Basename(p) == From(p, RFind(p, "/") + 1)

\* os.path.dirname(p) of a normalised absolute path
Dirname(p) ==
    LET i == RFind(p, "/") IN IF i <= 1 THEN <<"/">> ELSE SubSeq(p, 1, i - 1)

\* The directories on the way to the normalised path p, p included
RECURSIVE Ancestors(_)
Ancestors(p) == IF p = <<"/">> THEN {p} ELSE {p} \cup Ancestors(Dirname(p))

\* os.path.splitext(p)[1]: the extension with its dot, leading dots of the
\* file name are not an extension
Splitext1(p) ==
    LET sepIndex == RFind(p, "/")
        dotIndex == RFind(p, ".")
    IN  IF dotIndex > sepIndex
           /\ \E k \in (sepIndex + 1)..(dotIndex - 1) : p[k] # "."
        THEN From(p, dotIndex)
        ELSE <<>>

(***************************************************************************)
(* Python values and exceptions                                            *)
(***************************************************************************)

\* A Python value handed between lookup, process and copy: a str or None
StrVal(s) == [t |-> "str", v |-> s]

None == [t |-> "None", v |-> <<>>]

\* The outcome of a call: a returned value, or the exception it raised
Return(val) == [exc |-> "none", val |-> val]

Raise(e) == [exc |-> e, val |-> None]

(***************************************************************************)
(* class Canon                                                             *)
(***************************************************************************)

\* The sort keys the command line can put into ordered_args (dest of each flag)
SortKeys ==
    {"date", "time", "model", "lens", "orientation", "aperture", "fnumber", "make"}

\* Canon.metaindex
metaindex ==
    [ date        |-> <<"Image DateTime">>,
      time        |-> <<"Image DateTime">>,
      model       |-> <<"Image Model">>,
      lens        |-> <<"EXIF LensModel">>,
      orientation |-> <<"Image Orientation">>,
      make        |-> <<"Image Make">> ]

\* Canon.staticmethods: the keys that have a formatter
staticmethods == {"date", "time", "model", "lens", "orientation", "make"}

\* lookup with str(exif.get(...)) in place of str(exif[...]): an absent tag
\* gives the string 'None'
lookup_str_get(meta, exif) ==
    IF meta \in DOMAIN metaindex
    THEN IF metaindex[meta][1] \in DOMAIN exif
         THEN Return(StrVal(exif[metaindex[meta][1]]))
         ELSE Return(StrVal(<<"N", "o", "n", "e">>))
    ELSE Return(None)

\* lookup with exif.get(...) in place of str(exif[...]): an absent tag gives
\* None
lookup_get(meta, exif) ==
    IF meta \in DOMAIN metaindex
    THEN IF metaindex[meta][1] \in DOMAIN exif
         THEN Return(StrVal(exif[metaindex[meta][1]]))
         ELSE Return(None)
    ELSE Return(None)

\* Canon.lookup(meta, exif): exif[...] raises KeyError for a tag the file lacks;
\* a key outside metaindex prints a message and returns None
lookup(meta, exif) ==
    IF meta \in DOMAIN metaindex
    THEN IF metaindex[meta][1] \in DOMAIN exif
         THEN Return(StrVal(exif[metaindex[meta][1]]))
         ELSE Raise("KeyError")
    ELSE Return(None)

LeapYear(y) == (y % 4 = 0 /\ y % 100 # 0) \/ y % 400 = 0

DaysInMonth(y, m) ==
    IF m = 2 THEN (IF LeapYear(y) THEN 29 ELSE 28)
    ELSE IF m \in {4, 6, 9, 11} THEN 30 ELSE 31

CountChar(s, c) == Cardinality({i \in 1..Len(s) : s[i] = c})

\* datetime.datetime.strptime(payload, '%Y:%m:%d %H:%M:%S'): the six numbers,
\* or ok = FALSE where strptime raises ValueError
Strptime(payload) ==
    LET bad   == [ok |-> FALSE, n |-> <<>>]
        words == Split(payload)
    IN  IF Len(words) # 2 \/ StartsWith(payload, " ") \/ EndsWith(payload, " ")
        THEN bad
        ELSE
        LET dp == Pieces(words[1], ":", <<>>)
            tp == Pieces(words[2], ":", <<>>)
        IN  IF \/ Len(dp) # 3 \/ CountChar(words[1], ":") # 2
               \/ Len(tp) # 3 \/ CountChar(words[2], ":") # 2
               \/ \E i \in 1..3 : ~AllDigits(dp[i]) \/ ~AllDigits(tp[i])
               \/ Len(dp[1]) # 4
               \/ \E i \in 2..3 : Len(dp[i]) > 2
               \/ \E i \in 1..3 : Len(tp[i]) > 2
            THEN bad
            ELSE
            LET y  == StrToInt(dp[1])
                mo == StrToInt(dp[2])
                d  == StrToInt(dp[3])
                h  == StrToInt(tp[1])
                mi == StrToInt(tp[2])
                sec == StrToInt(tp[3])
            IN  IF /\ y >= 1
                   /\ mo \in 1..12
                   /\ d >= 1 /\ d <= DaysInMonth(y, mo)
                   /\ h \in 0..23 /\ mi \in 0..59 /\ sec \in 0..59
                THEN [ok |-> TRUE, n |-> <<y, mo, d, h, mi, sec>>]
                ELSE bad

\* '/'.join(str(n) for n in date)
JoinNumbers(ns) == JoinWith([i \in 1..Len(ns) |-> IntToStr(ns[i])], "/")

\* Canon.format_date
format_date(payload) ==
    LET d == Strptime(payload)
    IN  IF d.ok THEN Return(StrVal(JoinNumbers(SubSeq(d.n, 1, 3))))
        ELSE Raise("ValueError")

\* Canon.format_time
format_time(payload) ==
    LET d == Strptime(payload)
    IN  IF d.ok THEN Return(StrVal(JoinNumbers(d.n))) ELSE Raise("ValueError")

\* Canon.format_lens: payload.split()[0]
format_lens(payload) ==
    IF Split(payload) = <<>> THEN Raise("IndexError")
    ELSE Return(StrVal(Split(payload)[1]))

\* Canon.format_orientation: payload.split()[0]
format_orientation(payload) ==
    IF Split(payload) = <<>> THEN Raise("IndexError")
    ELSE Return(StrVal(Split(payload)[1]))

\* Canon.format_make
format_make(payload) == Return(StrVal(payload))

\* Canon.format_model: payload.split()[-1]
format_model(payload) ==
    IF Split(payload) = <<>> THEN Raise("IndexError")
    ELSE Return(StrVal(Split(payload)[Len(Split(payload))]))

\* self.staticmethods[meta](payload); a payload of None has no split() and is
\* no string for strptime (AttributeError / TypeError), format_make returns it
CallFormatter(meta, payload) ==
    IF payload = None
    THEN (IF meta = "make" THEN Return(None) ELSE Raise("TypeError"))
    ELSE CASE meta = "date"        -> format_date(payload.v)
           [] meta = "time"        -> format_time(payload.v)
           [] meta = "model"       -> format_model(payload.v)
           [] meta = "lens"        -> format_lens(payload.v)
           [] meta = "orientation" -> format_orientation(payload.v)
           [] meta = "make"        -> format_make(payload.v)

\* Canon.process(meta, payload): a key outside staticmethods prints a message
\* and returns None
process(meta, payload) ==
    IF meta \in staticmethods THEN CallFormatter(meta, payload) ELSE Return(None)

\* dest = [camera.process(key, camera.lookup(key, exif)) for key in order]:
\* the keys are taken in order; the first exception ends the comprehension.
\*   dest  the segments built so far,
\*   calls the formatter calls made, in order, each with its payload and outcome,
\*   exc   the exception that ended it, or "none".
RECURSIVE Resolve(_, _, _)
Resolve(order, exif, acc) ==
    IF order = <<>> THEN acc
    ELSE
    LET key == Head(order)
        lk  == lookup(key, exif)
    IN  IF lk.exc # "none" THEN [acc EXCEPT !.exc = lk.exc]
        ELSE
        LET pr    == process(key, lk.val)
            calls == IF key \in staticmethods
                     THEN Append(acc.calls,
                                 [key |-> key, payload |-> lk.val, out |-> pr])
                     ELSE acc.calls
        IN  IF pr.exc # "none"
            THEN [acc EXCEPT !.exc = pr.exc, !.calls = calls]
            ELSE Resolve(Tail(order), exif,
                         [acc EXCEPT !.dest = Append(@, pr.val), !.calls = calls])

ResolveStart == [dest |-> <<>>, calls |-> <<>>, exc |-> "none"]

(***************************************************************************)
(* The file system, search, copy and move                                  *)
(***************************************************************************)

\* os.path.isfile, os.path.isdir, os.path.exists on a file system given as the
\* map of its regular files and the set of its directories
IsFile(p, fsFiles) == NormPath(p) \in DOMAIN fsFiles

IsDir(p, fsDirs) == NormPath(p) \in fsDirs

Exists(p, fsFiles, fsDirs) == IsFile(p, fsFiles) \/ IsDir(p, fsDirs)

\* os.listdir(path) gives the entries of a directory in arbitrary order: rev
\* selects one of two opposite orders
ListDir(path, fsFiles, fsDirs, rev) ==
    LET entries == {Basename(p) : p \in {q \in (DOMAIN fsFiles) \cup fsDirs :
                                           q # path /\ Dirname(q) = path}}
    IN  IF rev THEN Reversed(SetToSeq(entries)) ELSE SetToSeq(entries)

\* x in list
InList(x, list) == \E k \in 1..Len(list) : list[k] = x

\* search(path, extensions)
RECURSIVE search(_, _, _, _, _)
search(path, extensions, fsFiles, fsDirs, rev) ==
    LET listing == ListDir(path, fsFiles, fsDirs, rev)
        found(file) ==
            LET file_path == Join2(path, file)
            IN  IF IsFile(file_path, fsFiles)
                THEN IF extensions = <<>> THEN <<file_path>>
                     ELSE IF InList(From(Splitext1(file_path), 2), extensions)
                          THEN <<file_path>>
                          ELSE <<>>
                ELSE IF IsDir(file_path, fsDirs)
                     THEN search(file_path, extensions, fsFiles, fsDirs, rev)
                     ELSE <<>>
        file_list == Concat([k \in 1..Len(listing) |-> found(listing[k])])
    IN  Sorted(file_list)

\* main: ext_img, the lower case extensions followed by their upper() forms
ext_img_lower ==
    << <<"j", "p", "g">>, <<"j", "p", "e", "g">>, <<"c", "r", "2">>,
       <<"n", "e", "f">>, <<"r", "w", "2">>, <<"a", "r", "w">>,
       <<"s", "r", "f">>, <<"s", "r", "2">> >>

ext_img == ext_img_lower \o [k \in 1..Len(ext_img_lower) |-> Upper(ext_img_lower[k])]

\* os.path.join(a, *dest) for segments that are all strings
RECURSIVE JoinAll(_, _)
JoinAll(a, dest) ==
    IF dest = <<>> THEN a ELSE JoinAll(Join2(a, Head(dest).v), Tail(dest))

\* What a placement leaves behind: the exception raised ("none" when it
\* returned), the file system after it, and the file written
Placed(exc, fsFiles, fsDirs, dst) ==
    [exc |-> exc, fsFiles |-> fsFiles, fsDirs |-> fsDirs, dst |-> dst]

\* The first lines of copy and of move: os.path.join raises TypeError for a
\* segment that is None; os.makedirs creates the missing directories of path
\* and raises OSError when a regular file is in the way
MakePath(output, dest, fsFiles, fsDirs) ==
    IF \E k \in 1..Len(dest) : dest[k] = None
    THEN [exc |-> "TypeError", path |-> <<>>, fsDirs |-> fsDirs]
    ELSE
    LET path == JoinAll(Abspath(output), dest)
    IN  IF Exists(path, fsFiles, fsDirs)
        THEN [exc |-> "none", path |-> path, fsDirs |-> fsDirs]
        ELSE IF \E a \in Ancestors(NormPath(path)) : a \in DOMAIN fsFiles
             THEN [exc |-> "OSError", path |-> path, fsDirs |-> fsDirs]
             ELSE [exc |-> "none", path |-> path,
                   fsDirs |-> fsDirs \cup Ancestors(NormPath(path))]

\* copy(source, output, dest): shutil.copy2 writes into the directory path under
\* the name of the source, or onto path itself when path is a regular file; it
\* raises when source and destination are the same file, when the source is
\* missing and when the destination is a directory
copy(source, output, dest, fsFiles, fsDirs) ==
    LET mk == MakePath(output, dest, fsFiles, fsDirs)
    IN  IF mk.exc # "none" THEN Placed(mk.exc, fsFiles, fsDirs, <<>>)
        ELSE
        LET dst == IF IsDir(mk.path, mk.fsDirs)
                   THEN NormPath(Join2(mk.path, Basename(source)))
                   ELSE NormPath(mk.path)
        IN  IF ~IsFile(source, fsFiles) \/ IsDir(dst, mk.fsDirs)
            THEN Placed("IOError", fsFiles, mk.fsDirs, dst)
            ELSE IF dst = NormPath(source)
            THEN Placed("SameFileError", fsFiles, mk.fsDirs, dst)
            ELSE Placed("none",
                        [q \in (DOMAIN fsFiles) \cup {dst} |->
                            IF q = dst THEN fsFiles[NormPath(source)] ELSE fsFiles[q]],
                        mk.fsDirs, dst)

\* move(source, output, dest): shutil.move renames the source into the
\* directory path and raises when the destination already exists
move(source, output, dest, fsFiles, fsDirs) ==
    LET mk == MakePath(output, dest, fsFiles, fsDirs)
    IN  IF mk.exc # "none" THEN Placed(mk.exc, fsFiles, fsDirs, <<>>)
        ELSE
        LET dst == IF IsDir(mk.path, mk.fsDirs)
                   THEN NormPath(Join2(mk.path, Basename(source)))
                   ELSE NormPath(mk.path)
        IN  IF ~IsFile(source, fsFiles)
            THEN Placed("IOError", fsFiles, mk.fsDirs, dst)
            ELSE IF IsDir(mk.path, mk.fsDirs) /\ Exists(dst, fsFiles, mk.fsDirs)
            THEN Placed("Error", fsFiles, mk.fsDirs, dst)
            ELSE Placed("none",
                        [q \in ((DOMAIN fsFiles) \ {NormPath(source)}) \cup {dst} |->
                            IF q = dst THEN fsFiles[NormPath(source)] ELSE fsFiles[q]],
                        mk.fsDirs, dst)

(***************************************************************************)
(* Inputs: the command line and the directory tree the program is run on   *)
(***************************************************************************)

\* The most sort flags on the command line
MaxOrder == 2

\* The most files in the tree under the input root
MaxFiles == 2

InRoot == <<"/", "i">>

\* An input path that does not exist
MissingRoot == <<"/", "q">>

\* The output root: apart from the input root, or the input root itself
OutRoots == { <<"/", "o">>, InRoot }

\* The files a tree is drawn from: lower, upper and mixed case image
\* extensions, a file that is no image, and the same file name at two depths
TreePaths ==
    { <<"/", "i", "/", "a", ".", "j", "p", "g">>,
      <<"/", "i", "/", "B", ".", "J", "P", "G">>,
      <<"/", "i", "/", "c", ".", "J", "p", "g">>,
      <<"/", "i", "/", "e", ".", "t", "x", "t">>,
      <<"/", "i", "/", "d", "/", "a", ".", "j", "p", "g">> }

DateTimeGood ==
    <<"2", "0", "1", "3", ":", "0", "8", ":", "0", "5", " ",
      "1", "7", ":", "3", "9", ":", "4", "6">>

DateTimeBad == <<"2", "0", "1", "3", "-", "0", "8">>

TagsGood ==
    ("Image DateTime" :> DateTimeGood)
    @@ ("Image Model" :> <<"E", "O", "S", " ", "6", "0", "D">>)
    @@ ("EXIF LensModel" :> <<"E", "F", "5", "0", " ", "f", "/", "1", ".", "8">>)
    @@ ("Image Orientation" :> <<"H", "o", "r", " ", "(", "n", ")">>)
    @@ ("Image Make" :> <<"d">>)

\* What a file can hold: all tags; no Image DateTime and no Image Make tag;
\* an Image DateTime
\* that is no timestamp and an Image Make that starts with a separator; or
\* the file cannot be opened
Contents ==
    { [readable |-> TRUE, exif |-> TagsGood],
      [readable |-> TRUE,
       exif |-> [t \in (DOMAIN TagsGood) \ {"Image DateTime", "Image Make"} |->
                    TagsGood[t]]],
      [readable |-> TRUE,
       exif |-> [TagsGood EXCEPT !["Image DateTime"] = DateTimeBad,
                                 !["Image Make"] = <<"/", "x">>]],
      [readable |-> FALSE, exif |-> TagsGood] }

Orders == UNION {[1..n -> SortKeys] : n \in 0..MaxOrder}

Trees ==
    UNION {[S -> Contents] : S \in {T \in SUBSET TreePaths : Cardinality(T) <= MaxFiles}}

\* The directories of a tree: the root and every directory that holds a file
TreeDirs(root, tree) ==
    UNION {Ancestors(Dirname(p)) : p \in DOMAIN tree} \cup Ancestors(root)

(***************************************************************************)
(* State                                                                   *)
(***************************************************************************)

VARIABLES
    input,      \* args.input
    output,     \* args.output
    argMove,    \* args.move
    order,      \* args.ordered_args: the sort flags in command line order
    fsFiles,    \* the file system: path of each regular file -> the file
                \* (named by its path at the start) whose content it holds
    fsDirs,     \* the file system: its directories
    orig,       \* the regular files at the start: path -> content
    pc,         \* where the program is
    exc,        \* the exception that ended the program, "none" otherwise
    images,     \* main: the list search() returned
    pos,        \* main: the position of the for loop in images
    exif,       \* main: the tags of the current image
    dest,       \* main: the segments of the current image
    attempted,  \* the images the loop has taken, in order
    calls,      \* the formatter calls made, in order, each with the file read
    placements  \* the calls of copy(), in order, each with its outcome

vars ==
    << input, output, argMove, order, fsFiles, fsDirs, orig, pc, exc, images, pos,
       exif, dest, attempted, calls, placements >>

args == <<input, output, argMove, order>>

Init ==
    /\ \/ /\ input = InRoot
          /\ output \in OutRoots
          /\ argMove \in BOOLEAN
          /\ order \in Orders
          /\ \E tree \in Trees :
                /\ orig = tree
                /\ fsFiles = [p \in DOMAIN tree |-> p]
                /\ fsDirs = TreeDirs(InRoot, tree)
       \/ /\ input = MissingRoot
          /\ output \in OutRoots
          /\ argMove \in BOOLEAN
          /\ order \in {<<"date">>, <<"make", "model">>}
          /\ orig = <<>>
          /\ fsFiles = <<>>
          /\ fsDirs = {<<"/">>}
    /\ pc = "cli"
    /\ exc = "none"
    /\ images = <<>>
    /\ pos = 1
    /\ exif = <<>>
    /\ dest = <<>>
    /\ attempted = <<>>
    /\ calls = <<>>
    /\ placements = <<>>

\* An uncaught exception ends the program
Crash(e) == pc' = "crashed" /\ exc' = e

(***************************************************************************)
(* cli                                                                     *)
(***************************************************************************)

\* cli(): the input path must exist; args.ordered_args exists only once a sort
\* flag has been parsed; main never receives args.move
Cli ==
    /\ pc = "cli"
    /\ IF ~Exists(input, fsFiles, fsDirs)
       THEN pc' = "returned" /\ exc' = exc
       ELSE IF order = <<>>
            THEN Crash("AttributeError")
            ELSE pc' = "search" /\ exc' = exc
    /\ UNCHANGED << args, fsFiles, fsDirs, orig, images, pos, exif, dest,
                    attempted, calls, placements >>

(***************************************************************************)
(* main                                                                    *)
(***************************************************************************)

\* for image in search(input, ext_img)
Search ==
    /\ pc = "search"
    /\ \E rev \in BOOLEAN : images' = search(input, ext_img, fsFiles, fsDirs, rev)
    /\ pos' = 1
    /\ pc' = "for"
    /\ UNCHANGED << args, fsFiles, fsDirs, orig, exc, exif, dest, attempted,
                    calls, placements >>

\* exif = exifread.process_file(open(image), details=False)
Open ==
    /\ pc = "for"
    /\ pos <= Len(images)
    /\ attempted' = Append(attempted, images[pos])
    /\ IF IsFile(images[pos], fsFiles) /\ orig[fsFiles[NormPath(images[pos])]].readable
       THEN /\ exif' = orig[fsFiles[NormPath(images[pos])]].exif
            /\ pc' = "resolve"
            /\ exc' = exc
       ELSE /\ Crash("IOError")
            /\ exif' = exif
    /\ UNCHANGED << args, fsFiles, fsDirs, orig, images, pos, dest, calls,
                    placements >>

\* dest = [camera.process(key, camera.lookup(key, exif)) for key in order]
ResolveDest ==
    /\ pc = "resolve"
    /\ LET r == Resolve(order, exif, ResolveStart)
       IN  /\ calls' = calls \o [k \in 1..Len(r.calls) |->
                                   [image |-> images[pos],
                                    content |-> fsFiles[NormPath(images[pos])],
                                    key |-> r.calls[k].key,
                                    payload |-> r.calls[k].payload,
                                    out |-> r.calls[k].out]]
           /\ IF r.exc = "none"
              THEN dest' = r.dest /\ pc' = "copy" /\ exc' = exc
              ELSE dest' = dest /\ Crash(r.exc)
    /\ UNCHANGED << args, fsFiles, fsDirs, orig, images, pos, exif, attempted,
                    placements >>

\* copy(image, output, dest), and on to the next image
Copy ==
    /\ pc = "copy"
    /\ LET r == copy(images[pos], output, dest, fsFiles, fsDirs)
       IN  /\ fsFiles' = r.fsFiles
           /\ fsDirs' = r.fsDirs
           /\ placements' = Append(placements,
                                   [source |-> images[pos],
                                    content |-> fsFiles[NormPath(images[pos])],
                                    dest |-> dest, dst |-> r.dst, exc |-> r.exc])
           /\ IF r.exc = "none"
              THEN pos' = pos + 1 /\ pc' = "for" /\ exc' = exc
              ELSE pos' = pos /\ Crash(r.exc)
    /\ UNCHANGED << args, orig, images, exif, dest, attempted, calls >>

\* the for loop is exhausted and main returns
Return0 ==
    /\ pc = "for"
    /\ pos > Len(images)
    /\ pc' = "done"
    /\ UNCHANGED << args, fsFiles, fsDirs, orig, exc, images, pos, exif, dest,
                    attempted, calls, placements >>

Next == Cli \/ Search \/ Open \/ ResolveDest \/ Copy \/ Return0

Spec == Init /\ [][Next]_vars

(***************************************************************************)
(* Properties                                                              *)
(***************************************************************************)

Terminal == pc \in {"done", "crashed"}

\* The calls of copy() that returned
Done == {n \in 1..Len(placements) : placements[n].exc = "none"}

\* The tags of the file that was at path f when the program started
TagsOf(f) == orig[f].exif

\* The key has a formatter and a tag, and the file has that tag
Resolvable(key, f) ==
    /\ key \in staticmethods
    /\ key \in DOMAIN metaindex
    /\ metaindex[key][1] \in DOMAIN TagsOf(f)

\* The file lacks a tag that a key of the requested order needs
LacksTag(f) ==
    \E k \in 1..Len(order) :
        order[k] \in DOMAIN metaindex /\ metaindex[order[k]][1] \notin DOMAIN TagsOf(f)

\* The formatted value of a key for a file that has its tag
Formatted(key, f) == CallFormatter(key, StrVal(TagsOf(f)[metaindex[key][1]])).val.v

\* The output root followed by the formatted value of each key, in order
RootThenSegments(f) ==
    NormPath(Abspath(output)
             \o Concat([k \in 1..Len(order) |-> <<"/">> \o Formatted(order[k], f)]))

\* C1: for every order of supported keys and every file that has all their
\* tags, the directory the file is placed in is the output root followed by the
\* formatted value of each key, in the order of the command line.
C1_OrderIsDirectoryNesting ==
    \A n \in Done :
        LET f == placements[n].content
        IN  (\A k \in 1..Len(order) : Resolvable(order[k], f))
            => Dirname(placements[n].dst) = RootThenSegments(f)

\* C2: a failing file stops only itself: when the run has ended, every
\* discovered file has been attempted, exactly once and in discovery order.
C2_EveryFileAttempted == Terminal => attempted = images

\* C3: a file that lacks a tag a key of the order needs is never placed: copy
\* is never called for it, and its content is found nowhere but at its own
\* path.
C3_LackingTagNeverPlaced ==
    \A f \in DOMAIN orig :
        LacksTag(f) =>
            /\ \A n \in 1..Len(placements) : placements[n].content # f
            /\ \A p \in DOMAIN fsFiles : fsFiles[p] = f => p = f

\* A second file lacks a tag after an earlier key of the order has resolved
\* for it, and after the first file has been placed
C3_Witness ==
    /\ pc = "crashed" /\ exc = "KeyError"
    /\ Len(attempted) = 2
    /\ LacksTag(fsFiles[attempted[2]])
    /\ Done = {1}
    /\ \E k \in 1..Len(calls) : calls[k].image = attempted[2]

\* C4: with --move, a file that has been placed is at its destination and no
\* longer at its original path.
C4_MoveRemovesSource ==
    argMove =>
        \A n \in Done :
            /\ placements[n].dst \in DOMAIN fsFiles
            /\ NormPath(placements[n].source) \notin DOMAIN fsFiles

\* C5: a key the command line accepts and the Canon catalog does not support
\* never makes the run crash on the segment it leaves unresolved.
C5_UnsupportedKeyNoCrash ==
    (\E k \in 1..Len(order) : order[k] \notin staticmethods)
        => ~(pc = "crashed" /\ exc = "TypeError")

\* The extension of the path is in the image allow-list, whatever its case
IsImageAnyCase(p) ==
    \E k \in 1..Len(ext_img_lower) :
        Upper(From(Splitext1(p), 2)) = Upper(ext_img_lower[k])

IsSorted(list) ==
    \A j \in 1..Len(list) : \A k \in (j + 1)..Len(list) : StrLess(list[j], list[k])

\* C6: the list main iterates over is sorted by full path and holds exactly
\* the files under the input root whose extension is in the allow-list in any
\* mix of upper and lower case.
C6_DiscoveryCaseInsensitive ==
    pc \in {"for", "resolve", "copy", "done"} =>
        /\ IsSorted(images)
        /\ Range(images) = {p \in DOMAIN orig : IsImageAnyCase(p)}

\* C7: no segment a formatter returns holds a path separator.
C7_SegmentsHaveNoSeparator ==
    \A n \in 1..Len(calls) :
        calls[n].out.exc = "none" =>
            \A k \in 1..Len(calls[n].out.val.v) : calls[n].out.val.v[k] # "/"

\* C8: without --move, when the run has ended every discovered file is still
\* at its original path with its original content.
C8_CopyLeavesSourcesUntouched ==
    (~argMove /\ Terminal) =>
        \A k \in 1..Len(images) :
            /\ NormPath(images[k]) \in DOMAIN fsFiles
            /\ fsFiles[NormPath(images[k])] = NormPath(images[k])

\* C9: whenever a formatter is called, its payload is the string value of a
\* tag the file has: an absent tag or an unknown key ends before any formatter.
C9_FormatterPayloadPresent ==
    \A n \in 1..Len(calls) :
        /\ calls[n].payload.t = "str"
        /\ calls[n].key \in DOMAIN metaindex
        /\ metaindex[calls[n].key][1] \in DOMAIN TagsOf(calls[n].content)
        /\ calls[n].payload.v = TagsOf(calls[n].content)[metaindex[calls[n].key][1]]

\* A formatter has run for a file, and a later key of the order met an absent
\* tag in the same file
C9_Witness ==
    /\ pc = "crashed" /\ exc = "KeyError"
    /\ LacksTag(fsFiles[attempted[Len(attempted)]])
    /\ \E n \in 1..Len(calls) : calls[n].image = attempted[Len(attempted)]

\* The placements that wrote the file dst
WritersOf(dst) == {n \in Done : placements[n].dst = dst}

\* Of the placements that wrote dst, the one whose source sorts last
LastWriter(dst) ==
    CHOOSE n \in WritersOf(dst) :
        \A m \in WritersOf(dst) :
            m = n \/ StrLess(placements[m].source, placements[n].source)

\* C10: files are placed in sorted discovery order; when copy is called for two
\* files of the same name with the same segments, both calls succeed; and a
\* destination written more than once holds the content of the source that
\* sorts last.
C10_LastSortedSourceWins ==
    /\ \A m \in 1..Len(placements) : \A n \in (m + 1)..Len(placements) :
          /\ StrLess(placements[m].source, placements[n].source)
          /\ (/\ Basename(placements[m].source) = Basename(placements[n].source)
              /\ placements[m].dest = placements[n].dest)
             => placements[m].exc = "none" /\ placements[n].exc = "none"
    /\ \A n \in Done :
          fsFiles[placements[n].dst]
              = NormPath(placements[LastWriter(placements[n].dst)].source)

====
